---- MODULE Spec2Model ----
(***************************************************************************)
(* The Markov-chain tweet generator of app.py (generate_markov_tweet and   *)
(* the "Generate Tweet" button handler that calls it), as a state machine. *)
(*                                                                         *)
(* Strings are sequences of one-character strings, so that " ".join and    *)
(* the reading of its result back into words are real computations:       *)
(*   "a"  is <<"a">>,   ""  is <<>>,   "a b"  is <<"a", " ", "b">>.        *)
(* An optional value is a sequence of length 0 (None) or 1 (the value).    *)
(* A transition table (a Python dict) is a function from its keys to the   *)
(* successor lists; the store markov_chains maps user names to tables.     *)
(***************************************************************************)
EXTENDS Integers, Sequences, FiniteSets, TLC

\* ------------------------------------------------------------------ bounds
MaxLength == 5
MaxNeg == 1
MaxSucc == 2
NumSessions == 2

\* ------------------------------------------------------------------ words
wEmpty == <<>>
wa == <<"a">>
wb == <<"b">>
wc == <<"c">>
wx == <<"x">>
wy == <<"y">>

None == <<>>
Some(v) == <<v>>

Range(seq) == {seq[j] : j \in 1..Len(seq)}

\* ------------------------------------------------- inputs (markov_chains.json)
EmptyTable == <<>>

KeyWords == {wEmpty, wa}
Vocabulary == {wEmpty, wa, wb}
SuccLists == UNION {[1..n -> Vocabulary] : n \in 0..MaxSucc}
BoundedTables == UNION {[K -> SuccLists] : K \in SUBSET KeyWords}

TableABC == (wa :> <<wb, wb, wc>>)
TableXY == (wx :> <<wy>>) @@ (wy :> <<wx>>)

Tables == BoundedTables \cup {TableABC, TableXY}

Users == {"alice", "bob"}
SharedUsers == {"alice", "bob", "carol"}
SingleStores == {("alice" :> T) : T \in Tables}
\* the tables that never mention "b": every table over "" and "a", and TableXY
FairTables == {T \in Tables : \A k \in DOMAIN T : k # wb /\ wb \notin Range(T[k])}
FairStores == {("alice" :> T) : T \in FairTables}
SharedStores == {("alice" :> TableABC) @@ ("bob" :> TableXY),
                 ("alice" :> (wa :> <<wb, wa>>)) @@ ("bob" :> EmptyTable)}

Lengths == (0 - MaxNeg)..MaxLength
SharedLengths == {0, 2, 3}
Seeds == {None} \cup {Some(w) : w \in {wEmpty, wa, wb, wx}}
SharedSeeds == {None, Some(wa)}

Sessions == 1..NumSessions

\* ------------------------------------------------------- Python primitives
Sentinel == <<"N","o","t"," ","e","n","o","u","g","h"," ","d","a","t","a"," ",
              "t","o"," ","g","e","n","e","r","a","t","e"," ","a"," ",
              "t","w","e","e","t",".">>

\* dict.get(key, default): the value looked up
Get(d, key, default) == IF key \in DOMAIN d THEN d[key] ELSE default

\* dict.setdefault(key, default) would leave the key behind in the dict
AfterSetDefault(d, key, default) ==
    IF key \in DOMAIN d THEN d
    ELSE [k \in DOMAIN d \cup {key} |-> IF k = key THEN default ELSE d[k]]

\* dict.get(key, default): the dict afterwards (get never inserts)
AfterGet(d, key, default) == d

\* "not chain": an empty dict is falsy
ChainIsEmptyNever(chain) == FALSE

ChainIsEmpty(chain) == DOMAIN chain = {}

\* "not next_words": an empty list is falsy
NoSuccessorsNever(next_words) == FALSE

NoSuccessors(next_words) == Len(next_words) = 0

\* the truth value of seed: None and "" are falsy
Truthy(sd) == sd # None /\ sd[1] # <<>>

\* "seed and seed in chain"
SeedIgnored(sd, chain) == FALSE

SeedInChain(sd, chain) == sd # None /\ sd[1] \in DOMAIN chain

SeedValid(sd, chain) == Truthy(sd) /\ sd[1] \in DOMAIN chain

RECURSIVE SetToSeq(_)
SetToSeq(S) == IF S = {} THEN <<>>
               ELSE LET x == CHOOSE x \in S : TRUE
                    IN <<x>> \o SetToSeq(S \ {x})

\* list(chain.keys())
KeyList(chain) == SetToSeq(DOMAIN chain)

\* random.choice(seq): the possible outcomes, each an optional value;
\* None stands for the IndexError random.choice raises on an empty sequence
RandomChoiceFirst(seq) == IF Len(seq) = 0 THEN {None} ELSE {Some(seq[1])}

RandomChoice(seq) == IF Len(seq) = 0 THEN {None}
                     ELSE {Some(seq[j]) : j \in 1..Len(seq)}

\* len(range(n))
RangeCountInclusive(n) == IF n + 1 > 0 THEN n + 1 ELSE 0

RangeCountShort(n) == IF n - 1 > 0 THEN n - 1 ELSE 0

RangeCountAbs(n) == IF n > 0 THEN n ELSE 0 - n

RangeCount(n) == IF n > 0 THEN n ELSE 0

\* " ".join(words)
RECURSIVE Join(_)
Join(words) == IF Len(words) = 0 THEN <<>>
               ELSE IF Len(words) = 1 THEN words[1]
               ELSE words[1] \o <<" ">> \o Join(Tail(words))

\* ------------------------------------------------------------------ state
VARIABLES
    on_disk,        \* markov_chains.json, the artifact load_data reads
    markov_chains,  \* the loaded store, shared by every session
    pc,             \* per session: where its script run is
    user,           \* per session: selected_user
    length,         \* per session: the length argument
    seed,           \* per session: the seed argument (optional string)
    word,           \* per session: the current word
    tweet_words,    \* per session: the list built so far
    i,              \* per session: iterations of the for loop completed
    draws,          \* per session: random.choice calls made by this call
    exit_by,        \* per session: how the call left ("sentinel","break","range")
    result          \* per session: the string returned

vars == <<on_disk, markov_chains, pc, user, length, seed, word, tweet_words,
          i, draws, exit_by, result>>

\* chain = markov_chains.get(selected_user, {})
ChainOf(u) == Get(markov_chains, u, EmptyTable)

Idle == [s \in Sessions |-> "idle"]

InitSessions ==
    /\ pc = Idle
    /\ user = [s \in Sessions |-> "alice"]
    /\ length = [s \in Sessions |-> 0]
    /\ seed = [s \in Sessions |-> None]
    /\ word = [s \in Sessions |-> <<>>]
    /\ tweet_words = [s \in Sessions |-> <<>>]
    /\ i = [s \in Sessions |-> 0]
    /\ draws = [s \in Sessions |-> 0]
    /\ exit_by = [s \in Sessions |-> "none"]
    /\ result = [s \in Sessions |-> <<>>]

\* load_data
Init ==
    /\ on_disk \in SingleStores
    /\ markov_chains = on_disk
    /\ InitSessions

InitFair ==
    /\ on_disk \in FairStores
    /\ markov_chains = on_disk
    /\ InitSessions

InitShared ==
    /\ on_disk \in SharedStores
    /\ markov_chains = on_disk
    /\ InitSessions

\* the button handler looks the table up and calls generate_markov_tweet
Call(s, u, len, sd) ==
    /\ pc[s] = "idle"
    /\ pc' = [pc EXCEPT ![s] = "entry"]
    /\ user' = [user EXCEPT ![s] = u]
    /\ length' = [length EXCEPT ![s] = len]
    /\ seed' = [seed EXCEPT ![s] = sd]
    /\ word' = [word EXCEPT ![s] = <<>>]
    /\ tweet_words' = [tweet_words EXCEPT ![s] = <<>>]
    /\ i' = [i EXCEPT ![s] = 0]
    /\ draws' = [draws EXCEPT ![s] = 0]
    /\ exit_by' = [exit_by EXCEPT ![s] = "none"]
    /\ result' = [result EXCEPT ![s] = <<>>]
    /\ UNCHANGED <<on_disk, markov_chains>>

\* if not chain: return "Not enough data to generate a tweet."
ReturnSentinel(s) ==
    /\ pc[s] = "entry"
    /\ ChainIsEmpty(ChainOf(user[s]))
    /\ pc' = [pc EXCEPT ![s] = "done"]
    /\ exit_by' = [exit_by EXCEPT ![s] = "sentinel"]
    /\ result' = [result EXCEPT ![s] = Sentinel]
    /\ UNCHANGED <<on_disk, markov_chains, user, length, seed, word,
                   tweet_words, i, draws>>

\* the start word: the seed if truthy and a key, else a random key
ChooseStart(s) ==
    /\ pc[s] = "entry"
    /\ ~ChainIsEmpty(ChainOf(user[s]))
    /\ LET chain == ChainOf(user[s])
       IN IF SeedValid(seed[s], chain)
          THEN /\ word' = [word EXCEPT ![s] = seed[s][1]]
               /\ tweet_words' = [tweet_words EXCEPT ![s] = <<seed[s][1]>>]
               /\ pc' = [pc EXCEPT ![s] = "loop"]
               /\ UNCHANGED draws
          ELSE \E r \in RandomChoice(KeyList(chain)) :
               /\ draws' = [draws EXCEPT ![s] = @ + 1]
               /\ IF r = None
                  THEN /\ pc' = [pc EXCEPT ![s] = "raised"]
                       /\ UNCHANGED <<word, tweet_words>>
                  ELSE /\ word' = [word EXCEPT ![s] = r[1]]
                       /\ tweet_words' = [tweet_words EXCEPT ![s] = <<r[1]>>]
                       /\ pc' = [pc EXCEPT ![s] = "loop"]
    /\ UNCHANGED <<on_disk, markov_chains, user, length, seed, i, exit_by,
                   result>>

\* the store after chain.get(word, []) has run on the table of user u
StoreAfterGet(u, w) ==
    IF u \in DOMAIN markov_chains
    THEN [markov_chains EXCEPT ![u] = AfterGet(markov_chains[u], w, <<>>)]
    ELSE markov_chains

\* one iteration of the for loop that finds successors and takes one
Iterate(s) ==
    /\ pc[s] = "loop"
    /\ i[s] < RangeCount(length[s] - 1)
    /\ LET next_words == Get(ChainOf(user[s]), word[s], <<>>)
       IN /\ ~NoSuccessors(next_words)
          /\ \E r \in RandomChoice(next_words) :
             /\ draws' = [draws EXCEPT ![s] = @ + 1]
             /\ IF r = None
                THEN /\ pc' = [pc EXCEPT ![s] = "raised"]
                     /\ UNCHANGED <<word, tweet_words, i>>
                ELSE /\ word' = [word EXCEPT ![s] = r[1]]
                     /\ tweet_words' = [tweet_words EXCEPT ![s] = Append(@, r[1])]
                     /\ i' = [i EXCEPT ![s] = @ + 1]
                     /\ UNCHANGED pc
    /\ markov_chains' = StoreAfterGet(user[s], word[s])
    /\ UNCHANGED <<on_disk, user, length, seed, exit_by, result>>

\* an iteration that finds no successors: break, then return the joined words
Break(s) ==
    /\ pc[s] = "loop"
    /\ i[s] < RangeCount(length[s] - 1)
    /\ NoSuccessors(Get(ChainOf(user[s]), word[s], <<>>))
    /\ markov_chains' = StoreAfterGet(user[s], word[s])
    /\ pc' = [pc EXCEPT ![s] = "done"]
    /\ exit_by' = [exit_by EXCEPT ![s] = "break"]
    /\ result' = [result EXCEPT ![s] = Join(tweet_words[s])]
    /\ UNCHANGED <<on_disk, user, length, seed, word, tweet_words, i, draws>>

\* the range is exhausted: return the joined words
Finish(s) ==
    /\ pc[s] = "loop"
    /\ i[s] >= RangeCount(length[s] - 1)
    /\ pc' = [pc EXCEPT ![s] = "done"]
    /\ exit_by' = [exit_by EXCEPT ![s] = "range"]
    /\ result' = [result EXCEPT ![s] = Join(tweet_words[s])]
    /\ UNCHANGED <<on_disk, markov_chains, user, length, seed, word,
                   tweet_words, i, draws>>

\* the result is shown and the script run ends: its locals are gone and the
\* session waits for the next click
Display(s) ==
    /\ pc[s] = "done"
    /\ pc' = [pc EXCEPT ![s] = "idle"]
    /\ user' = [user EXCEPT ![s] = "alice"]
    /\ length' = [length EXCEPT ![s] = 0]
    /\ seed' = [seed EXCEPT ![s] = None]
    /\ word' = [word EXCEPT ![s] = <<>>]
    /\ tweet_words' = [tweet_words EXCEPT ![s] = <<>>]
    /\ i' = [i EXCEPT ![s] = 0]
    /\ draws' = [draws EXCEPT ![s] = 0]
    /\ exit_by' = [exit_by EXCEPT ![s] = "none"]
    /\ result' = [result EXCEPT ![s] = <<>>]
    /\ UNCHANGED <<on_disk, markov_chains>>

Run(s) == ReturnSentinel(s) \/ ChooseStart(s) \/ Iterate(s) \/ Break(s)
          \/ Finish(s) \/ Display(s)

\* one session, any request the function accepts
Next ==
    \/ \E u \in Users, len \in Lengths, sd \in Seeds : Call(1, u, len, sd)
    \/ ReturnSentinel(1)
    \/ ChooseStart(1)
    \/ Iterate(1)
    \/ Break(1)
    \/ Finish(1)
    \/ Display(1)

Spec == Init /\ [][Next]_vars

\* the same session; the interpreter keeps running a call it has started
FairSpec == InitFair /\ [][Next]_vars /\ WF_vars(Run(1))

\* several sessions on one loaded store
NextShared ==
    \/ \E s \in Sessions, u \in SharedUsers, len \in SharedLengths, sd \in SharedSeeds :
          Call(s, u, len, sd)
    \/ \E s \in Sessions : ReturnSentinel(s)
    \/ \E s \in Sessions : ChooseStart(s)
    \/ \E s \in Sessions : Iterate(s)
    \/ \E s \in Sessions : Break(s)
    \/ \E s \in Sessions : Finish(s)
    \/ \E s \in Sessions : Display(s)

SpecShared == InitShared /\ [][NextShared]_vars

\* ------------------------------------- the function as a relation on inputs
\* the word lists a walk from w can build in at most n further iterations
RECURSIVE Walks(_, _, _)
Walks(chain, w, n) ==
    LET next_words == Get(chain, w, <<>>)
    IN IF n = 0 \/ Len(next_words) = 0 THEN {<<w>>}
       ELSE {<<w>> \o t : t \in UNION {Walks(chain, next_words[j], n - 1) :
                                          j \in 1..Len(next_words)}}

\* every string generate_markov_tweet(chain, len, sd) can return
Outcomes(chain, len, sd) ==
    IF DOMAIN chain = {} THEN {Sentinel}
    ELSE LET starts == IF sd # None /\ sd[1] # <<>> /\ sd[1] \in DOMAIN chain
                       THEN {sd[1]} ELSE DOMAIN chain
             n == IF len - 1 > 0 THEN len - 1 ELSE 0
         IN {Join(t) : t \in UNION {Walks(chain, w, n) : w \in starts}}

\* ------------------------------------------------------ reading the output
\* the words of a string: what str.split(" ") gives, the inverse of " ".join
\* on words without spaces
RECURSIVE Split(_)
Split(str) ==
    IF \A k \in 1..Len(str) : str[k] # " " THEN <<str>>
    ELSE LET k == CHOOSE k \in 1..Len(str) :
                     str[k] = " " /\ \A m \in 1..(k - 1) : str[m] # " "
         IN <<SubSeq(str, 1, k - 1)>> \o Split(SubSeq(str, k + 1, Len(str)))

Words(s) == Split(result[s])
Table(s) == IF user[s] \in DOMAIN markov_chains THEN markov_chains[user[s]]
            ELSE <<>>
Returned(s) == pc[s] = "done"
NonEmptyTable(s) == DOMAIN Table(s) # {}
DeadEnd(s, w) == w \notin DOMAIN Table(s) \/ Table(s)[w] = <<>>
Provided(s) == seed[s] # None /\ seed[s][1] # <<>>
SeedIsKey(s) == seed[s] # None /\ seed[s][1] \in DOMAIN Table(s)

\* C1. With a non-empty table and a positive length, the call never raises and
\* the string it returns has between 1 and length words.
C1_WordCountInRange ==
    \A s \in Sessions :
        (pc[s] # "idle" /\ NonEmptyTable(s) /\ length[s] >= 1) =>
            /\ pc[s] # "raised"
            /\ Returned(s) =>
                  (Len(Words(s)) >= 1 /\ Len(Words(s)) <= length[s])

C1_Witness ==
    \E s \in Sessions :
        /\ Returned(s) /\ NonEmptyTable(s)
        /\ length[s] = 3 /\ Len(Words(s)) = 3 /\ seed[s] = None

\* C2. With an empty table (a user with no table, or with the table {}) the
\* call returns exactly the sentinel, for any length and seed, having made no
\* random choice and raised nothing.
C2_EmptyTableSentinel ==
    \A s \in Sessions :
        (pc[s] # "idle" /\ ~NonEmptyTable(s)) =>
            /\ pc[s] \in {"entry", "done"}
            /\ draws[s] = 0
            /\ Returned(s) => result[s] = Sentinel

C2_Witness ==
    \E s \in Sessions :
        /\ Returned(s) /\ user[s] \notin DOMAIN markov_chains
        /\ length[s] < 0 /\ seed[s] = Some(wa) /\ result[s] = Sentinel

\* C3. When the seed is provided (a non-empty string) and is a key of the
\* table, the first word of the output is the seed, for every length.
C3_SeedIsFirstWord ==
    \A s \in Sessions :
        (Returned(s) /\ NonEmptyTable(s) /\ Provided(s) /\ SeedIsKey(s)) =>
            Words(s)[1] = seed[s][1]

C3_Witness ==
    \E s \in Sessions :
        /\ Returned(s) /\ Provided(s) /\ SeedIsKey(s)
        /\ Cardinality(DOMAIN Table(s)) = 2
        /\ Len(Words(s)) >= 2 /\ Words(s)[1] = seed[s][1]

\* C4. When the seed is absent, the empty string, or not a key, the first
\* word of the output is a key of the table, and at the start of the call
\* every key of the table can be taken as the start word.
C4_FirstWordIsAnyKey ==
    \A s \in Sessions :
        (NonEmptyTable(s) /\ ~(Provided(s) /\ SeedIsKey(s))) =>
            /\ Returned(s) => Words(s)[1] \in DOMAIN Table(s)
            /\ pc[s] = "entry" =>
                  \A k \in DOMAIN Table(s) :
                      ENABLED (ChooseStart(s) /\ tweet_words'[s] = <<k>>)

C4_Witness ==
    \E s \in Sessions :
        /\ Returned(s) /\ seed[s] = Some(wEmpty)
        /\ DOMAIN Table(s) = {wEmpty, wa}
        /\ Words(s)[1] = wa

\* C5 as stated, on the walks of two or more non-empty words. Whenever a word
\* of the output has no successors, the output is shorter than length.
C5_Original ==
    \A s \in Sessions :
        (/\ Returned(s) /\ NonEmptyTable(s) /\ length[s] >= 1
         /\ Len(Words(s)) >= 2
         /\ \A k \in 1..Len(Words(s)) : Words(s)[k] # <<>>
         /\ \E k \in 1..Len(Words(s)) : DeadEnd(s, Words(s)[k])) =>
            Len(Words(s)) < length[s]

\* C5 as amended. A word without successors ends the walk without an error: it
\* is the last word of the output.  The output is shorter than length when the
\* loop looked that word up and broke; a dead end reached at position length
\* ends an output of exactly length words.  {"a": ["b","b","c"]}, length 3,
\* seed "a" gives exactly 2 words.
C5_DeadEndIsLast ==
    \A s \in Sessions :
        (pc[s] # "idle" /\ NonEmptyTable(s)) =>
            /\ pc[s] # "raised"
            /\ Returned(s) =>
                /\ \A k \in 1..Len(Words(s)) :
                       DeadEnd(s, Words(s)[k]) => k = Len(Words(s))
                /\ exit_by[s] = "break" =>
                       /\ DeadEnd(s, Words(s)[Len(Words(s))])
                       /\ Len(Words(s)) < length[s]
                /\ (Table(s) = TableABC /\ length[s] = 3 /\ seed[s] = Some(wa)) =>
                       Len(Words(s)) = 2

C5_Witness ==
    \E s \in Sessions :
        /\ Returned(s) /\ exit_by[s] = "break"
        /\ Table(s) = TableABC /\ length[s] = 3 /\ seed[s] = Some(wa)
        /\ Words(s) = <<wa, wc>>

\* C6 as stated, on tables of non-empty words. For any length, the loop runs
\* at most length times and the list holds at most length words.
C6_Original ==
    \A s \in Sessions :
        (/\ pc[s] \in {"loop", "done"} /\ NonEmptyTable(s)
         /\ <<>> \notin DOMAIN Table(s)) =>
            /\ i[s] <= length[s]
            /\ Len(tweet_words[s]) <= length[s]

\* C6 as amended. Every call the session starts returns, after at most
\* max(length - 1, 0) iterations of the loop and with at most max(length, 1)
\* words, whatever the table (cycles included), the seed and the random choices.
C6_Terminates ==
    /\ (pc[1] = "entry") ~> (pc[1] = "done")
    /\ [](\A s \in Sessions :
            /\ pc[s] # "raised"
            /\ i[s] <= (IF length[s] >= 1 THEN length[s] - 1 ELSE 0)
            /\ Len(tweet_words[s]) <= (IF length[s] >= 1 THEN length[s] ELSE 1)
            /\ Returned(s) /\ NonEmptyTable(s) =>
                  Len(Words(s)) = Len(tweet_words[s]))

C6_Witness ==
    \E s \in Sessions :
        /\ Returned(s) /\ Table(s) = TableXY
        /\ length[s] = 5 /\ i[s] = 4 /\ Len(Words(s)) = 5

\* C7. With a non-positive length and a non-empty table the call raises
\* nothing, runs no iteration and returns an empty or a one-word string.
C7_NonPositiveLength ==
    \A s \in Sessions :
        (pc[s] # "idle" /\ NonEmptyTable(s) /\ length[s] <= 0) =>
            /\ pc[s] # "raised"
            /\ i[s] = 0
            /\ Returned(s) => (result[s] = <<>> \/ Len(Words(s)) = 1)

C7_Witness ==
    \E s \in Sessions :
        /\ Returned(s) /\ NonEmptyTable(s) /\ length[s] < 0
        /\ Len(Words(s)) = 1 /\ ~DeadEnd(s, Words(s)[1])

\* C8. The loaded store always equals what was loaded, whatever the sessions
\* sharing it do, and every string a session gets is one the function can
\* return for that session's own arguments and the table as loaded.
C8_TablesNeverChange ==
    /\ markov_chains = on_disk
    /\ \A s \in Sessions :
          Returned(s) =>
              result[s] \in Outcomes(Get(on_disk, user[s], <<>>),
                                     length[s], seed[s])

C8_Witness ==
    /\ pc[1] = "done" /\ pc[2] = "loop"
    /\ user[1] = "alice" /\ user[2] = "alice"
    /\ exit_by[1] = "break" /\ Len(tweet_words[2]) = 2

\* C9. Consecutive words of an output are linked in the table: each word is an
\* element of its predecessor's successor list; and in the loop every element
\* of the current word's successor list can be taken as the next word.
C9_ValidPath ==
    \A s \in Sessions :
        NonEmptyTable(s) =>
            /\ Returned(s) =>
                  \A k \in 1..(Len(Words(s)) - 1) :
                      /\ Words(s)[k] \in DOMAIN Table(s)
                      /\ Words(s)[k + 1] \in Range(Table(s)[Words(s)[k]])
            /\ (pc[s] = "loop" /\ i[s] + 1 < length[s]) =>
                  \A x \in Range(Get(Table(s), word[s], <<>>)) :
                      ENABLED (Iterate(s) /\ word'[s] = x)

C9_Witness ==
    \E s \in Sessions :
        /\ Returned(s) /\ Table(s) = (wa :> <<wEmpty, wa>>)
        /\ Words(s) = <<wa, wa, wEmpty>>

\* C10. With a non-empty table and a positive length the output has exactly
\* length words unless its last word has no successors.
\* {"x": ["y"], "y": ["x"]}, length 5, seed "x" gives "x y x y x".
C10_FullLengthUnlessDeadEnd ==
    \A s \in Sessions :
        (Returned(s) /\ NonEmptyTable(s) /\ length[s] >= 1) =>
            /\ Len(Words(s)) = length[s] \/ DeadEnd(s, Words(s)[Len(Words(s))])
            /\ (Table(s) = TableXY /\ length[s] = 5 /\ seed[s] = Some(wx)) =>
                  result[s] = <<"x", " ", "y", " ", "x", " ", "y", " ", "x">>

C10_Witness ==
    \E s \in Sessions :
        /\ Returned(s) /\ Table(s) = TableXY
        /\ length[s] = 5 /\ seed[s] = Some(wx)
        /\ result[s] = <<"x", " ", "y", " ", "x", " ", "y", " ", "x">>
====
